---- MODULE Spec2Model ----
(***************************************************************************)
(* Command-resolution pipeline of the OpenStack agent, in its four         *)
(* deployments:                                                            *)
(*   "routes"  : routes.py handle_command (Flask, threaded) in front of    *)
(*               agent.py OpenStackAgent.process_user_query                *)
(*   "agent"   : agent.py run as a program (its __main__ loop)             *)
(*   "chatbot" : consolidated_chatbot.py OpenStackAgent.execute_command    *)
(*               (is_web = TRUE behind handle_command, FALSE in run_cli)   *)
(*   "legacy"  : agent_two_layer_original.py OpenStackAgent.execute_command*)
(* The inference oracle, the person at the prompt and the backend provider *)
(* are the environment: their replies are drawn from small sets.           *)
(***************************************************************************)
EXTENDS Integers, Sequences, FiniteSets, TLC

VARIABLES
    variant,      \* which deployment this run is
    req,          \* per thread: the request being handled and its locals
    pending,      \* routes.py pending_confirmations: token -> stored action
    nextToken,    \* next uuid4 to be minted (uuid4 values never repeat)
    nreq          \* requests received so far by the routes.py server

vars == <<variant, req, pending, nextToken, nreq>>

(***************************************************************************)
(* Bounds of the model                                                     *)
(***************************************************************************)
MaxRequests == 3        \* requests one run of the routes.py server receives
MaxTokens == 2          \* confirmation ids minted in a behaviour
MaxIntentParams == 2    \* entries in the oracle's "parameters" object
MaxCorrections == 1     \* entries in the oracle's "suggested_corrections"
MaxIntentMissing == 1   \* names in "missing_parameters_based_on_intent"
MaxPrompts == 3         \* answers typed at the prompts of one request

Variants == {"routes", "agent", "chatbot", "legacy"}
Threads(v) == IF v = "routes" THEN {1, 2} ELSE {1}
AllThreads == {1, 2}
Tokens == 1..MaxTokens

(***************************************************************************)
(* Values: JSON / Python values as tagged records; text is a sequence of   *)
(* one-character strings so that prefixes and digits are computed.         *)
(***************************************************************************)
Null == [t |-> "null"]
IntV(n) == [t |-> "int", i |-> n]
StrV(s) == [t |-> "str", s |-> s]

IsNull(v) == v.t = "null"

PleaseProvide == <<"P","l","e","a","s","e"," ","p","r","o","v","i","d","e">>
NoneText == <<"N","o","n","e">>

VName == StrV(<<"w","e","b","1">>)
VSize == IntV(20)
VSizeText == StrV(<<"1","0","G","B">>)
VPlaceholder == StrV(PleaseProvide \o <<" ","a"," ","v","a","l","u","e">>)
VTyped == StrV(<<"2","0">>)                 \* what the person types at a prompt
VDefaultVolume == StrV(<<"d","e","f","a","u","l","t","-","v","o","l","u","m","e">>)
VDefaultSize == IntV(10)
VDefaultCidr == StrV(<<"1","9","2",".","1","6","8",".","1","0","0",".","0","/","2","4">>)
VDefaultSubnet == StrV(<<"d","e","f","a","u","l","t","-","s","u","b","n","e","t">>)

DigitChars == <<"0","1","2","3","4","5","6","7","8","9">>
DigitOf(n) == DigitChars[n + 1]

RECURSIVE IntText(_)
IntText(n) == IF n < 10 THEN <<DigitOf(n)>> ELSE IntText(n \div 10) \o <<DigitOf(n % 10)>>

\* Python str(value)
StrOf(v) ==
    CASE v.t = "str" -> v.s
      [] v.t = "int" -> IntText(v.i)
      [] OTHER -> NoneText

\* Python s.startswith(p)
StartsWith(s, p) == Len(s) >= Len(p) /\ SubSeq(s, 1, Len(p)) = p

\* str(value).startswith("Please provide")
IsPlaceholder(v) == StartsWith(StrOf(v), PleaseProvide)

EmptyMap == <<>>
Has(m, k) == k \in DOMAIN m
\* Python: name not in params or params[name] is None
AbsentOrNone(m, k) == ~Has(m, k) \/ IsNull(m[k])
Restrict(m, S) == [k \in (DOMAIN m) \cap S |-> m[k]]
\* Python d.update(e): e wins
Update(d, e) == [k \in (DOMAIN d) \cup (DOMAIN e) |-> IF k \in DOMAIN e THEN e[k] ELSE d[k]]
Range(s) == {s[i] : i \in DOMAIN s}


(***************************************************************************)
(* The backend provider: the methods of the provider object the model      *)
(* exercises, with the signature inspect.signature() reports for each.     *)
(* type is str(annotation), required is "has no default".                  *)
(***************************************************************************)
TStr == "<class 'str'>"
TInt == "<class 'int'>"
TBool == "<class 'bool'>"
TOptStr == "typing.Optional[str]"
TOptList == "typing.Optional[typing.List[str]]"

Param(n, ty, rq, df) == [name |-> n, type |-> ty, required |-> rq, default |-> df]

FakeOpenStackAPI ==
    [ connect |-> <<>>,
      is_connected |-> <<>>,
      _ensure_connection |-> <<>>,
      list_servers |-> <<>>,
      delete_server |-> <<Param("server_id_or_name", TStr, TRUE, Null)>>,
      create_volume |-> <<Param("name", TStr, TRUE, Null),
                          Param("size_gb", TInt, TRUE, Null)>>,
      create_network_with_subnet |->
          <<Param("network_name", TStr, TRUE, Null),
            Param("subnet_cidr", TStr, FALSE, VDefaultCidr),
            Param("subnet_name", TOptStr, FALSE, Null)>>,
      get_usage |-> <<Param("identifier", TOptStr, FALSE, Null)>> ]

OpenStackAPI ==
    [ connect |-> <<>>,
      _ensure_connection |-> <<>>,
      list_servers |-> <<>>,
      delete_server |-> <<Param("server_id_or_name", TStr, TRUE, Null)>>,
      create_volume |-> <<Param("name", TStr, TRUE, Null),
                          Param("size_gb", TInt, TRUE, Null)>>,
      create_network_with_subnet |->
          <<Param("network_name", TStr, TRUE, Null),
            Param("subnet_cidr", TStr, FALSE, VDefaultCidr),
            Param("subnet_name", TOptStr, FALSE, Null)>>,
      get_usage |-> <<Param("server_id_or_name", TOptStr, FALSE, Null)>> ]

ConsolidatedOpenStackAPI ==
    [ connect |-> <<>>,
      _ensure_connection |-> <<>>,
      list_servers |-> <<>>,
      delete_server |-> <<Param("server_id_or_name", TStr, TRUE, Null)>>,
      create_volume |-> <<Param("name", TStr, TRUE, Null),
                          Param("size_gb", TInt, TRUE, Null),
                          Param("description", TOptStr, FALSE, Null),
                          Param("image_name", TOptStr, FALSE, Null),
                          Param("volume_type", TOptStr, FALSE, Null),
                          Param("availability_zone", TOptStr, FALSE, Null)>>,
      create_network_with_subnet |->
          <<Param("network_name", TStr, TRUE, Null),
            Param("subnet_name", TStr, TRUE, Null),
            Param("subnet_cidr", TStr, TRUE, Null),
            Param("enable_dhcp", TBool, FALSE, [t |-> "bool", b |-> TRUE]),
            Param("dns_nameservers", TOptList, FALSE, Null)>>,
      get_usage |-> <<Param("server_id_or_name", TOptStr, FALSE, Null)>> ]

\* self.openstack_api of each deployment
Provider(v) ==
    CASE v \in {"routes", "agent"} -> FakeOpenStackAPI
      [] v = "chatbot" -> ConsolidatedOpenStackAPI
      [] OTHER -> OpenStackAPI

\* getattr(self.openstack_api, name, None) finds a method
HasMethod(v, fn) == fn \in DOMAIN Provider(v)
Signature(v, fn) == Provider(v)[fn]
SigNames(v, fn) == {Signature(v, fn)[i].name : i \in DOMAIN Signature(v, fn)}

\* name.startswith('_')
IsPrivate(fn) == fn \in {"_ensure_connection"}

\* _get_api_methods: the registry, name -> parameter details
get_api_methods(v) ==
    LET public == {fn \in DOMAIN Provider(v) : ~IsPrivate(fn)}
        kept == IF v = "chatbot" THEN public \ {"connect", "_ensure_connection"} ELSE public
    IN  [fn \in kept |-> Provider(v)[fn]]

InRegistry(v, fn) == fn \in DOMAIN get_api_methods(v)
ApiParams(v, fn) == get_api_methods(v)[fn]
ApiParamNames(v, fn) == {ApiParams(v, fn)[i].name : i \in DOMAIN ApiParams(v, fn)}
Details(v, fn, n) == CHOOSE d \in Range(ApiParams(v, fn)) : d.name = n

\* DEFAULT_PARAMS_MAP of each deployment (entries of the modelled operations)
DEFAULT_PARAMS_MAP(v) ==
    IF v = "legacy"
    THEN [create_volume |-> EmptyMap]
    ELSE [create_volume |-> [name |-> VDefaultVolume, size_gb |-> VDefaultSize],
          create_network_with_subnet |->
              [subnet_cidr |-> VDefaultCidr, subnet_name |-> VDefaultSubnet]]

\* self.default_params_map.get(function_name, {}).get(name); Null when there is none
DefaultFor(v, fn, n) ==
    IF fn \in DOMAIN DEFAULT_PARAMS_MAP(v) /\ n \in DOMAIN DEFAULT_PARAMS_MAP(v)[fn]
    THEN DEFAULT_PARAMS_MAP(v)[fn][n]
    ELSE Null

critical_operations ==
    {"create_server", "delete_server", "resize_server",
     "create_volume", "delete_volume", "extend_volume",
     "create_network_with_subnet", "delete_network", "delete_subnet",
     "create_floating_ip", "delete_floating_ip",
     "attach_volume_to_server", "detach_volume_from_server",
     "add_floating_ip_to_server", "remove_floating_ip_from_server"}


(***************************************************************************)
(* Oracle replies and their parsing                                        *)
(***************************************************************************)
NoJson == [shape |-> "none"]
ClarifyIntent == [shape |-> "full", fn |-> "clarify", params |-> EmptyMap]
\* consolidated_chatbot.py: the intent returned when self.model is None
ClarifyNoModel ==
    [shape |-> "full", fn |-> "clarify",
     params |-> ("error" :> StrV(<<"A", "I">>))]

\* forms of a reply whose text json.loads accepts after the ```json fence,
\* if any, is taken off
JsonForms == {"plain", "fenced_json"}

\* _parse_json_response: json.loads of the text, else of the payload of a
\* ```json fence; None when neither parses.  The legacy agent also takes
\* the payload of a fence without language tag, and closes the braces of a
\* text that contains '"parameters": {' and was cut before they were closed
parse_json_response(v, reply) ==
    CASE reply.form \in JsonForms -> reply.payload
      [] reply.form = "fenced" /\ v = "legacy" -> reply.payload
      [] reply.form = "truncated_params" /\ v = "legacy" -> reply.payload
      [] OTHER -> NoJson

\* Python truthiness of a parsed JSON value
Truthy(j) == j.shape \notin {"none", "empty"}

\* _generate_initial_command_with_ai.  With form "unavailable" there is no
\* model: the payload is the intent the legacy keyword match finds in the
\* query (NoJson when it finds none)
generate_initial_command_with_ai(v, reply) ==
    CASE reply.form = "raise" -> ClarifyIntent
      [] reply.form = "unavailable" ->
            IF v = "legacy" THEN (IF Truthy(reply.payload) THEN reply.payload ELSE ClarifyIntent)
            ELSE IF v = "chatbot" THEN ClarifyNoModel
            ELSE ClarifyIntent
      [] OTHER ->
            LET parsed == parse_json_response(v, reply)
            IN  IF Truthy(parsed) THEN parsed ELSE ClarifyIntent

InvalidValidation ==
    [is_valid |-> FALSE, feedback |-> "set", missing |-> <<>>, corrections |-> EmptyMap]
\* agent_two_layer_original.py: the result when self.validation_model is None
SkippedValidation == [InvalidValidation EXCEPT !.is_valid = TRUE]

\* _validate_command_with_ai: the reply normalised to all four fields
\* (setdefault for the three a reply with "is_valid" may lack)
validate_command_with_ai(v, reply) ==
    CASE reply.form = "raise" -> InvalidValidation
      [] reply.form = "unavailable" ->
            IF v = "legacy" THEN SkippedValidation ELSE InvalidValidation
      [] OTHER ->
            LET parsed == parse_json_response(v, reply)
            IN  CASE parsed.shape = "full" ->
                       [is_valid |-> parsed.is_valid, feedback |-> "set",
                        missing |-> parsed.missing, corrections |-> parsed.corrections]
                  [] parsed.shape = "only_is_valid" ->
                       [is_valid |-> parsed.is_valid, feedback |-> "",
                        missing |-> <<>>, corrections |-> EmptyMap]
                  [] OTHER -> InvalidValidation

\* initial_intent.get('function_name')
IntentFn(intent) == IF intent.shape \in {"full", "no_params"} THEN intent.fn ELSE "<None>"
\* initial_intent.get('parameters', {})
IntentParams(intent) == IF intent.shape \in {"full", "no_fn"} THEN intent.params ELSE EmptyMap

(***************************************************************************)
(* Parameter resolution                                                    *)
(***************************************************************************)
\* the corrections the non-placeholder test lets through
AcceptedCorrections(corr) == Restrict(corr, {k \in DOMAIN corr : ~IsPlaceholder(corr[k])})

\* overlay of validation["suggested_corrections"] on the intent's parameters
MergeCorrections(v, params, corr) ==
    IF v = "legacy" THEN Update(params, corr)
    ELSE Update(params, AcceptedCorrections(corr))

RECURSIVE Dedup(_)
Dedup(s) ==
    IF s = <<>> THEN <<>>
    ELSE LET rest == Dedup(SubSeq(s, 1, Len(s) - 1))
             last == s[Len(s)]
         IN  IF last \in Range(rest) THEN rest ELSE Append(rest, last)

Names(sig) == [i \in DOMAIN sig |-> sig[i].name]

\* the test without "or provided_params[param_name] is None"
IsMissing_AbsenceOnly(v, provided, n) == ~Has(provided, n)

\* the test of _get_missing_parameters for one parameter
IsMissing(v, provided, n) ==
    IF v = "legacy" THEN ~Has(provided, n) ELSE AbsentOrNone(provided, n)

\* _get_missing_parameters: required parameters missing from provided_params,
\* in signature order
get_missing_parameters(v, fn, provided) ==
    IF ~InRegistry(v, fn) THEN <<>>
    ELSE Names(SelectSeq(ApiParams(v, fn),
                         LAMBDA d : d.required /\ IsMissing(v, provided, d.name)))

\* insertion order of DEFAULT_PARAMS_MAP[function_name]
DefaultMapOrder(v, fn) ==
    CASE v # "legacy" /\ fn = "create_volume" -> <<"name", "size_gb">>
      [] v # "legacy" /\ fn = "create_network_with_subnet" -> <<"subnet_cidr", "subnet_name">>
      [] OTHER -> <<>>

\* the prompt list without the required parameters that are missing: only
\* what the validation oracle reported
ParamsToPrompt_IntentOnly(v, fn, final_params, intent_missing) ==
    IF ~InRegistry(v, fn) \/ ApiParams(v, fn) = <<>> THEN <<>>
    ELSE Dedup(SelectSeq(intent_missing,
                   LAMBDA n : n \in ApiParamNames(v, fn) /\ AbsentOrNone(final_params, n)))

\* agent.py process_user_query: params_to_prompt_for_details, in insertion order
ParamsToPrompt(v, fn, final_params, intent_missing) ==
    IF ~InRegistry(v, fn) \/ ApiParams(v, fn) = <<>> THEN <<>>
    ELSE LET required_missing ==
                 Names(SelectSeq(ApiParams(v, fn),
                     LAMBDA d : d.required /\ AbsentOrNone(final_params, d.name)))
             by_intent ==
                 SelectSeq(intent_missing,
                     LAMBDA n : /\ n \in ApiParamNames(v, fn)
                                /\ n \notin Range(required_missing)
                                /\ AbsentOrNone(final_params, n))
             so_far == Dedup(required_missing \o by_intent)
             by_default_map ==
                 SelectSeq(DefaultMapOrder(v, fn),
                     LAMBDA n : /\ n \in ApiParamNames(v, fn)
                                /\ ~Details(v, fn, n).required
                                /\ n \notin Range(so_far)
                                /\ AbsentOrNone(final_params, n))
         IN  so_far \o by_default_map

\* agent_two_layer_original.py execute_command: missing_signature_params
LegacyParamsToPrompt(v, fn, provided, intent_missing) ==
    LET by_signature == get_missing_parameters(v, fn, provided)
        by_intent ==
            SelectSeq(intent_missing,
                LAMBDA n : ~Has(provided, n) /\ n \in ApiParamNames(v, fn)
                           /\ n \notin Range(by_signature))
    IN  Dedup(by_signature \o by_intent)

\* agent.py execute_command: the argument set built from the registry, the
\* default map and the schema defaults; ok = FALSE is "return None"
BuildFinalParams(v, fn, parameters) ==
    LET sig == ApiParams(v, fn)
        given(d) == Has(parameters, d.name) /\ ~IsNull(parameters[d.name])
        from_map(d) == ~given(d) /\ d.required /\ ~IsNull(DefaultFor(v, fn, d.name))
        from_schema(d) == ~given(d) /\ ~d.required /\ ~IsNull(d.default)
        fatal(d) == ~given(d) /\ d.required /\ IsNull(DefaultFor(v, fn, d.name))
        first == [n \in {d.name : d \in {e \in Range(sig) : given(e) \/ from_map(e) \/ from_schema(e)}} |->
                     LET d == Details(v, fn, n)
                     IN  IF given(d) THEN parameters[n]
                         ELSE IF from_map(d) THEN DefaultFor(v, fn, n)
                         ELSE d.default]
        late == Restrict(parameters, ApiParamNames(v, fn) \ DOMAIN first)
    IN  [ok |-> \A d \in Range(sig) : ~fatal(d),
         args |-> Update(first, late)]

\* _confirm_critical_action: does this operation need the prompt
NeedsConfirmation(fn) == fn \in critical_operations

\* a web branch that reports every name the validation oracle listed
WebIntentMissing_Unchecked(v, fn, final_params, missing_for_web) == missing_for_web

\* consolidated_chatbot.py execute_command, is_web: the names reported by the
\* first missing_parameters return; <<>> when that return is not taken
WebIntentMissing(v, fn, final_params, missing_for_web) ==
    LET truly == get_missing_parameters(v, fn, final_params)
    IN  IF \E n \in Range(missing_for_web) : n \in Range(truly)
        THEN SelectSeq(truly, LAMBDA n : n \in Range(missing_for_web))
        ELSE <<>>

\* the merged parameters forwarded as they are, without the filter
FilterToSignature_Unfiltered(v, fn, final_params) == final_params

\* filtered_params: the names inspect.signature(api_function) accepts
FilterToSignature(v, fn, final_params) == Restrict(final_params, SigNames(v, fn))

IsDigit(c) == c \in Range(DigitChars)
\* ''.join(filter(str.isdigit, text))
DigitsOnly(s) == SelectSeq(s, IsDigit)
DigitValue(c) == (CHOOSE i \in DOMAIN DigitChars : DigitChars[i] = c) - 1
RECURSIVE ParseInt(_)
\* int(text) of a non-empty digit string
ParseInt(s) == IF Len(s) = 0 THEN 0
               ELSE 10 * ParseInt(SubSeq(s, 1, Len(s) - 1)) + DigitValue(s[Len(s)])

\* agent_two_layer_original.py: the create_volume size_gb validation;
\* ok = FALSE is the early return
LegacyVolumeSize(fn, provided) ==
    IF fn # "create_volume" THEN [ok |-> TRUE, params |-> provided]
    ELSE IF ~Has(provided, "size_gb") THEN [ok |-> FALSE, params |-> provided]
    ELSE LET raw == provided["size_gb"]
         IN  CASE raw.t = "str" ->
                    LET size_str == DigitsOnly(raw.s)
                    IN  IF size_str = <<>> \/ ParseInt(size_str) <= 0
                        THEN [ok |-> FALSE, params |-> provided]
                        ELSE [ok |-> TRUE,
                              params |-> [provided EXCEPT !["size_gb"] = IntV(ParseInt(size_str))]]
                [] raw.t = "int" -> [ok |-> raw.i > 0, params |-> provided]
                [] OTHER -> [ok |-> FALSE, params |-> provided]

\* agent_two_layer_original.py: final_args
LegacyFinalArgs(v, fn, provided) ==
    LET typ(n) == (CHOOSE d \in Range(Signature(v, fn)) : d.name = n).type
        int_branch(n) == typ(n) = TInt /\ ~IsNull(provided[n])
        kept == {n \in (DOMAIN provided) \cap SigNames(v, fn) :
                    ~int_branch(n) \/ n = "volume_size"}
        truthy == {<<"t","r","u","e">>, <<"1">>, <<"y","e","s">>}
    IN  [n \in kept |->
            IF int_branch(n)
            THEN LET digits == DigitsOnly(StrOf(provided[n]))
                 \* the except clause stores value, by then the filtered text
                 IN  IF digits = <<>> THEN StrV(<<>>) ELSE IntV(ParseInt(digits))
            ELSE IF typ(n) = TBool /\ ~IsNull(provided[n])
                 THEN [t |-> "bool", b |-> StrOf(provided[n]) \in truthy]
                 ELSE provided[n]]

\* Python's binding of func(**args): TypeError when a parameter without a
\* default gets no argument
BindsOk(v, fn, args) ==
    \A d \in Range(Signature(v, fn)) : d.required => Has(args, d.name)


(***************************************************************************)
(* The environment's choices                                               *)
(***************************************************************************)
\* operations the oracle may name
OracleFns(v) ==
    IF v = "routes"
    THEN {"clarify", "list_servers", "delete_server"}
    ELSE {"clarify", "list_servers", "delete_server", "create_volume", "get_usage",
          "connect", "_ensure_connection", "no_such_op"}

\* parameter names the oracle may mention for an operation
OracleNames(v, fn) ==
    IF v = "routes" THEN (IF HasMethod(v, fn) THEN SigNames(v, fn) ELSE {})
    ELSE (IF HasMethod(v, fn)
          THEN SigNames(v, fn) \cap {"name", "size_gb", "server_id_or_name", "identifier"}
          ELSE {}) \cup {"bogus"}

\* values the oracle may give to a parameter
OracleValues(v, fn, n) ==
    IF v = "routes" THEN {VName}
    ELSE IF ~HasMethod(v, fn) \/ n \notin SigNames(v, fn) THEN {VName}
    ELSE IF (CHOOSE d \in Range(Signature(v, fn)) : d.name = n).type = TInt
         THEN {Null, VSize, VSizeText, VPlaceholder}
         ELSE {Null, VName, VPlaceholder}

\* maps with at most k entries the oracle may give for fn
PartialMaps(v, fn, k) ==
    UNION {{m \in [S -> UNION {OracleValues(v, fn, n) : n \in S}] :
              \A n \in S : m[n] \in OracleValues(v, fn, n)} :
           S \in {T \in SUBSET OracleNames(v, fn) : Cardinality(T) <= k}}

\* sequences without repetition of at most k names from ns
RECURSIVE NameLists(_, _)
NameLists(ns, k) ==
    IF k = 0 THEN {<<>>}
    ELSE LET shorter == NameLists(ns, k - 1)
         IN  shorter \cup {Append(l, n) : l \in shorter, n \in ns}

IntentsFor(v, fn) ==
    {[shape |-> "full", fn |-> fn, params |-> m] :
        m \in PartialMaps(v, fn, MaxIntentParams)}

\* whether the deployment can run without a model (agent.py exits at import
\* when the API key is missing; the other two go on with model = None)
ModelMayBeAbsent(v) == v \in {"chatbot", "legacy"}

\* what the generation oracle may answer
GenReplies(v) ==
    {[form |-> f, payload |-> NoJson] : f \in {"raise", "prose", "truncated"}}
    \cup {[form |-> f, payload |-> j] :
            f \in {"plain", "fenced_json", "fenced"},
            j \in UNION {IntentsFor(v, fn) : fn \in OracleFns(v)}
                  \cup {[shape |-> "no_fn", params |-> EmptyMap],
                        [shape |-> "no_params", fn |-> "list_servers"],
                        [shape |-> "empty"], [shape |-> "not_dict"]}}
    \* cut after the "parameters" object was opened, before the braces close
    \cup {[form |-> "truncated_params", payload |-> j] :
            j \in UNION {IntentsFor(v, fn) : fn \in OracleFns(v)}}
    \cup IF ModelMayBeAbsent(v)
         THEN {[form |-> "unavailable", payload |-> j] :
                 j \in {NoJson, [shape |-> "full", fn |-> "list_servers", params |-> EmptyMap]}}
         ELSE {}

\* what the validation oracle may answer about an intent for fn
ValReplies(v, fn) ==
    {[form |-> f, payload |-> NoJson] : f \in {"raise", "prose", "truncated"}}
    \cup {[form |-> "plain", payload |-> [shape |-> "no_is_valid"]]}
    \cup (IF ModelMayBeAbsent(v) THEN {[form |-> "unavailable", payload |-> NoJson]} ELSE {})
    \cup IF v = "routes" THEN {}
         ELSE {[form |-> "plain", payload |-> [shape |-> "only_is_valid", is_valid |-> b]] :
                  b \in BOOLEAN}
              \cup
              {[form |-> "plain",
                payload |-> [shape |-> "full", is_valid |-> b, missing |-> l, corrections |-> c]] :
                  b \in BOOLEAN,
                  l \in {x \in NameLists(OracleNames(v, fn), MaxIntentMissing) : Len(x) <= MaxIntentMissing},
                  c \in PartialMaps(v, fn, MaxCorrections)}

\* what the person types at a parameter prompt / at the confirmation prompt
PromptAnswers == {"empty", "default", "value", "eof"}
GateAnswers == {"yes", "no", "other", "eof"}

\* what the backend operation does: the kind of value it returns, or raises
BackendOutcomes(v) ==
    IF v = "routes" THEN {"dict", "dict_confirm", "raise"}
    ELSE {"none", "true", "list", "dict", "dict_confirm", "raise"}


(***************************************************************************)
(* Requests                                                                *)
(***************************************************************************)
NoResponse == [http |-> 0, status |-> "none", inner |-> "none", token |-> 0,
               missing |-> <<>>, fn |-> "", provided |-> EmptyMap]
NoOutput == [kind |-> "unset", missing |-> <<>>]
Out(k) == [kind |-> k, missing |-> <<>>]

NoReply == [form |-> "none", payload |-> NoJson]

\* a thread with no request in hand
Fresh ==
    [pc |-> "idle", is_web |-> FALSE, token |-> 0, confirmed |-> FALSE,
     via_token |-> FALSE,
     intent |-> NoJson, validation |-> InvalidValidation, fn |-> "",
     final_params |-> EmptyMap, toPrompt |-> <<>>, collected |-> EmptyMap,
     args |-> EmptyMap, output |-> NoOutput, response |-> NoResponse,
     raised |-> FALSE,
     \* history of the request
     oracle_calls |-> 0, asked |-> {}, nprompts |-> 0, gate |-> "none",
     invoked |-> <<>>, resolved |-> <<>>, was_pending |-> FALSE,
     raised_in |-> "none", clarified |-> FALSE, reply |-> NoReply]

\* the pipeline returns o to its caller
Returned(r, o) ==
    [r EXCEPT !.output = o, !.nprompts = 0, !.args = EmptyMap,
              !.pc = IF r.via_token THEN "pop" ELSE "respond"]

\* the locals of a call are gone when it has ended; the history stays
Ended(r) ==
    [r EXCEPT !.intent = NoJson, !.validation = InvalidValidation, !.fn = "",
              !.final_params = EmptyMap, !.toPrompt = <<>>, !.collected = EmptyMap,
              !.args = EmptyMap, !.nprompts = 0, !.output = NoOutput]

\* an exception leaves the pipeline: the except clause of the caller.
\* routes.py and the web handlers answer 500; run_cli and the legacy loop
\* print it; agent.py's loop catches KeyboardInterrupt only
Raised(v, r) ==
    LET resp ==
          CASE v = "routes" -> [NoResponse EXCEPT !.http = 500, !.status = "server_error"]
            [] v = "chatbot" /\ r.is_web -> [NoResponse EXCEPT !.http = 500, !.status = "absent"]
            [] OTHER -> [NoResponse EXCEPT !.status = "exception"]
    IN  [Ended(r) EXCEPT !.raised = TRUE, !.raised_in = r.pc, !.response = resp,
                         !.pc = IF v = "agent" THEN "crashed" ELSE "done"]

\* what a failed or refused step returns: the deployment's error value
ErrorOut(v, r) ==
    CASE v \in {"routes", "agent"} -> Out("str_error")
      [] v = "chatbot" /\ r.is_web -> Out("web_error")
      [] OTHER -> Out("None")

\* a pipeline that goes from parameter collection straight to the
\* connection, without the confirmation gate
AfterPrompt_NoGate(v, r) ==
    IF ~InRegistry(v, r.fn) THEN Returned(r, Out("None"))
    ELSE LET passed == Restrict(r.final_params, SigNames(v, r.fn))
         IN  [r EXCEPT !.args = passed, !.pc = "connect",
                       !.resolved = <<[fn |-> r.fn, args |-> passed]>>]

\* the part of the pipeline between parameter collection and the next
\* suspension point; r.final_params is complete
AfterPrompt(v, r) ==
    CASE v \in {"routes", "agent"} ->
            IF ~InRegistry(v, r.fn) THEN Returned(r, Out("None"))
            ELSE LET built == BuildFinalParams(v, r.fn, r.final_params)
                 IN  IF ~built.ok THEN Returned(r, Out("None"))
                     ELSE [r EXCEPT !.args = built.args, !.pc = "gate",
                                    !.resolved = <<[fn |-> r.fn, args |-> built.args]>>]
      [] v = "chatbot" ->
            IF ~r.is_web /\ get_missing_parameters(v, r.fn, r.final_params) # <<>>
            THEN Returned(r, Out("None"))
            ELSE [r EXCEPT !.pc = "connect",
                           !.resolved = <<[fn |-> r.fn, args |-> r.final_params]>>]
      [] OTHER ->
            IF get_missing_parameters(v, r.fn, r.final_params) # <<>>
            THEN Returned(r, Out("None"))
            ELSE LET sized == LegacyVolumeSize(r.fn, r.final_params)
                 IN  IF ~sized.ok THEN Returned(r, Out("None"))
                     ELSE [r EXCEPT !.final_params = sized.params,
                                    !.args = LegacyFinalArgs(v, r.fn, sized.params),
                                    !.resolved = <<[fn |-> r.fn,
                                                    args |-> LegacyFinalArgs(v, r.fn, sized.params)]>>,
                                    !.pc = "connect"]

Shared == <<pending, nextToken>>


\* a request arrives: routes.py handle_command up to the confirmation test,
\* or the next line typed at a command loop
Receive(t) ==
    /\ t \in Threads(variant)
    /\ req[t].pc \in {"idle", "done"}
    \* the server hands the request to its first free worker thread
    /\ \A u \in Threads(variant) : u < t => req[u].pc \notin {"idle", "done"}
    /\ IF variant = "routes"
       THEN /\ nreq < MaxRequests
            /\ nreq' = nreq + 1
            /\ \E id \in {0} \cup Tokens, ok \in BOOLEAN :
                 /\ id = 0 => ~ok
                 /\ req' = [req EXCEPT ![t] =
                        [Fresh EXCEPT !.is_web = TRUE, !.token = id, !.confirmed = ok,
                                      !.was_pending = (id \in DOMAIN pending),
                                      !.pc = IF id # 0 /\ ok THEN "check" ELSE "generate"]]
       ELSE /\ nreq' = nreq
            /\ \E web \in BOOLEAN :
                 /\ web => variant = "chatbot"
                 /\ req' = [req EXCEPT ![t] = [Fresh EXCEPT !.is_web = web, !.pc = "generate"]]
    /\ UNCHANGED <<variant, Shared>>

\* the confirmation branch without the membership test of line 67
ConfirmCheck_Unchecked(t) ==
    /\ req[t].pc = "check"
    /\ req' = [req EXCEPT ![t] = [@ EXCEPT !.pc = "fetch", !.via_token = TRUE]]
    /\ UNCHANGED <<variant, Shared, nreq>>

\* routes.py line 67: confirmation_id not in pending_confirmations
ConfirmCheck(t) ==
    /\ req[t].pc = "check"
    /\ req' = [req EXCEPT ![t] =
          IF req[t].token \in DOMAIN pending
          THEN [@ EXCEPT !.pc = "fetch", !.via_token = TRUE]
          ELSE [@ EXCEPT !.pc = "done",
                         !.response = [NoResponse EXCEPT !.http = 400,
                                                         !.status = "invalid_confirmation"]]]
    /\ UNCHANGED <<variant, Shared, nreq>>

\* routes.py line 74: action_to_execute = pending_confirmations[confirmation_id]
ConfirmFetch(t) ==
    /\ req[t].pc = "fetch"
    /\ req' = [req EXCEPT ![t] =
          IF req[t].token \in DOMAIN pending
          THEN [@ EXCEPT !.pc = "generate"]
          ELSE Raised(variant, @)]
    /\ UNCHANGED <<variant, Shared, nreq>>

\* layer 1: the generation oracle is asked, and the clarify test
Generate(t) ==
    /\ req[t].pc = "generate"
    /\ \E reply \in GenReplies(variant) :
         LET intent == generate_initial_command_with_ai(variant, reply)
             r == [req[t] EXCEPT !.oracle_calls = @ + 1]
         IN  req' = [req EXCEPT ![t] =
               \* consolidated_chatbot.py 1234: no model, nothing is asked
               IF variant = "chatbot" /\ reply.form = "unavailable"
               THEN Returned(req[t], ErrorOut(variant, req[t]))
               ELSE IF intent.shape = "not_dict" THEN Raised(variant, r)
               ELSE IF IntentFn(intent) = "clarify"
               THEN Returned([r EXCEPT !.clarified = TRUE],
                             CASE variant \in {"routes", "agent"} -> Out("str_error")
                                  [] variant = "chatbot" /\ r.is_web -> Out("web_clarify")
                                  [] OTHER -> Out("None"))
               ELSE [r EXCEPT !.intent = intent, !.pc = "validate"]]
    /\ UNCHANGED <<variant, Shared, nreq>>

\* layer 2: the validation oracle is asked, and its corrections are merged
Validate(t) ==
    /\ req[t].pc = "validate"
    /\ \E reply \in ValReplies(variant, IntentFn(req[t].intent)) :
         LET validation == validate_command_with_ai(variant, reply)
             r == [req[t] EXCEPT !.oracle_calls = @ + 1]
         IN  req' = [req EXCEPT ![t] =
               IF r.intent.shape = "no_fn" THEN Raised(variant, r)
               ELSE [r EXCEPT !.validation = validation,
                              !.fn = IntentFn(r.intent),
                              !.final_params =
                                  MergeCorrections(variant, IntentParams(r.intent),
                                                   validation.corrections),
                              !.pc = "resolve"]]
    /\ UNCHANGED <<variant, Shared, nreq>>

\* the gap against the registry: prompt, report, or go on
ResolveParameters(v, r0) ==
    LET r == [r0 EXCEPT !.intent = NoJson, !.validation = InvalidValidation]
        ask(names) == IF names = <<>> THEN AfterPrompt(v, r)
                      ELSE [r EXCEPT !.toPrompt = names, !.pc = "prompt"]
    IN  CASE v \in {"routes", "agent"} ->
               ask(ParamsToPrompt(v, r0.fn, r0.final_params, r0.validation.missing))
          [] v = "chatbot" ->
               LET by_intent == WebIntentMissing(v, r0.fn, r0.final_params,
                                                 r0.validation.missing)
                   missing == get_missing_parameters(v, r0.fn, r0.final_params)
               IN  IF r0.is_web /\ by_intent # <<>>
                   THEN Returned(r, [kind |-> "web_missing", missing |-> by_intent])
                   ELSE IF r0.is_web /\ missing # <<>>
                   THEN Returned(r, [kind |-> "web_missing", missing |-> missing])
                   ELSE ask(missing)
          [] OTHER ->
               IF r0.fn = "create_volume" /\ ~Has(r0.final_params, "size_gb")
               THEN Returned(r, Out("None"))
               ELSE IF ~InRegistry(v, r0.fn) THEN Returned(r, Out("None"))
               ELSE ask(LegacyParamsToPrompt(v, r0.fn, r0.final_params,
                                             r0.validation.missing))

\* a pipeline that refuses a command the validation oracle judged invalid
AfterValidation_RejectsInvalid(v, r0) ==
    IF r0.validation.is_valid THEN ResolveParameters(v, r0)
    ELSE Returned([r0 EXCEPT !.intent = NoJson, !.validation = InvalidValidation],
                  ErrorOut(v, r0))

\* what follows the validation pass: is_valid and the feedback are printed,
\* never tested
AfterValidation(v, r0) == ResolveParameters(v, r0)

Resolve(t) ==
    /\ req[t].pc = "resolve"
    /\ req' = [req EXCEPT ![t] = AfterValidation(variant, req[t])]
    /\ UNCHANGED <<variant, Shared, nreq>>

\* an empty answer taken as the value
PromptValue_AcceptsEmpty(v, fn, n, typed) == [ok |-> TRUE, value |-> StrV(<<>>)]

\* the value _prompt_for_parameters stores for a typed answer; ok = FALSE
\* is the ValueError that makes it ask again
PromptValue(v, fn, n, typed) ==
    IF v # "legacy" /\ Details(v, fn, n).type = "int"
    THEN IF DigitsOnly(typed.s) = typed.s
         THEN [ok |-> TRUE, value |-> IntV(ParseInt(typed.s))]
         ELSE [ok |-> FALSE, value |-> typed]
    ELSE [ok |-> TRUE, value |-> typed]

\* _prompt_for_parameters: one answer typed at the prompt of the next
\* parameter; after the last one the collected values are merged
Prompt(t) ==
    /\ req[t].pc = "prompt"
    /\ req[t].nprompts < MaxPrompts
    /\ \E answer \in PromptAnswers :
         LET r == [req[t] EXCEPT !.nprompts = @ + 1, !.asked = @ \cup {Head(req[t].toPrompt)}]
             n == Head(r.toPrompt)
             default == DefaultFor(variant, r.fn, n)
             typed == PromptValue(variant, r.fn, n, VTyped)
             next(c) ==
                 IF Tail(r.toPrompt) = <<>>
                 THEN AfterPrompt(variant,
                          [r EXCEPT !.toPrompt = <<>>, !.collected = EmptyMap,
                                    !.final_params = Update(r.final_params, c)])
                 ELSE [r EXCEPT !.toPrompt = Tail(r.toPrompt), !.collected = c]
         IN  req' = [req EXCEPT ![t] =
               CASE answer = "eof" -> Raised(variant, r)
                 [] answer = "default" ->
                      IF ~IsNull(default) THEN next(Update(r.collected, (n :> default))) ELSE r
                 [] answer = "value" ->
                      IF typed.ok THEN next(Update(r.collected, (n :> typed.value))) ELSE r
                 [] OTHER ->
                      IF variant = "legacy" /\ ~Details(variant, r.fn, n).required
                      THEN next(r.collected)
                      ELSE r]
    /\ UNCHANGED <<variant, Shared, nreq>>

\* agent.py _confirm_critical_action, as execute_command calls it
Gate(t) ==
    /\ req[t].pc = "gate"
    /\ IF ~NeedsConfirmation(req[t].fn)
       THEN req' = [req EXCEPT ![t] = [@ EXCEPT !.pc = "connect"]]
       ELSE /\ req[t].nprompts < MaxPrompts
            /\ \E answer \in GateAnswers :
                 LET r == [req[t] EXCEPT !.nprompts = @ + 1,
                                         !.gate = IF @ = "none" THEN "asked" ELSE @]
                 IN  req' = [req EXCEPT ![t] =
                       CASE answer = "yes" -> [r EXCEPT !.gate = "yes", !.pc = "connect"]
                         [] answer = "no" -> Returned([r EXCEPT !.gate = "no"], Out("str_cancel"))
                         [] answer = "eof" -> Raised(variant, r)
                         [] OTHER -> r]
    /\ UNCHANGED <<variant, Shared, nreq>>

\* the connection is ensured, and the callable is looked up
Connect(t) ==
    /\ req[t].pc = "connect"
    /\ \E connected \in BOOLEAN :
         LET r == req[t]
         IN  req' = [req EXCEPT ![t] =
               IF ~connected THEN Returned(r, ErrorOut(variant, r))
               ELSE IF variant = "chatbot"
               THEN IF ~HasMethod(variant, r.fn) THEN Returned(r, ErrorOut(variant, r))
                    ELSE [r EXCEPT !.args = FilterToSignature(variant, r.fn, r.final_params),
                                   !.pc = "invoke"]
               ELSE [r EXCEPT !.pc = "invoke"]]
    /\ UNCHANGED <<variant, Shared, nreq>>

\* what execute_command returns for a value the backend returned
SuccessOut(v, r, kind) ==
    CASE v \in {"routes", "agent"} -> Out(IF kind = "none" THEN "None" ELSE kind)
      [] v = "chatbot" /\ r.is_web -> Out("web_success")
      [] v = "chatbot" -> Out(IF kind = "none" THEN "None" ELSE kind)
      [] OTHER -> Out("None")

\* an executor that calls the operation once more after it raised
Invoke_Retrying(t) ==
    /\ req[t].pc = "invoke"
    /\ LET r == req[t]
           ran == [r EXCEPT !.invoked = Append(@, [fn |-> r.fn, args |-> r.args])]
       IN  IF ~BindsOk(variant, r.fn, r.args)
           THEN req' = [req EXCEPT ![t] = Returned(r, ErrorOut(variant, r))]
           ELSE \E outcome \in BackendOutcomes(variant) :
                  req' = [req EXCEPT ![t] =
                     IF outcome = "raise"
                     THEN (IF Len(r.invoked) = 0 THEN ran
                           ELSE Returned(ran, ErrorOut(variant, r)))
                     ELSE Returned(ran, SuccessOut(variant, r, outcome))]
    /\ UNCHANGED <<variant, pending, nextToken, nreq>>

\* the backend operation is called with the final arguments
Invoke(t) ==
    /\ req[t].pc = "invoke"
    /\ LET r == req[t]
           ran == [r EXCEPT !.invoked = Append(@, [fn |-> r.fn, args |-> r.args])]
       IN  IF ~BindsOk(variant, r.fn, r.args)
           THEN req' = [req EXCEPT ![t] = Returned(r, ErrorOut(variant, r))]
           ELSE \E outcome \in BackendOutcomes(variant) :
                  req' = [req EXCEPT ![t] =
                     IF outcome = "raise" THEN Returned(ran, ErrorOut(variant, r))
                     ELSE Returned(ran, SuccessOut(variant, r, outcome))]
    /\ UNCHANGED <<variant, pending, nextToken, nreq>>

\* routes.py line 83: pending_confirmations.pop(confirmation_id)
Pop(t) ==
    /\ req[t].pc = "pop"
    /\ IF req[t].token \in DOMAIN pending
       THEN /\ pending' = Restrict(pending, (DOMAIN pending) \ {req[t].token})
            /\ req' = [req EXCEPT ![t] = [@ EXCEPT !.pc = "respond"]]
       ELSE /\ pending' = pending
            /\ req' = [req EXCEPT ![t] = Raised(variant, @)]
    /\ UNCHANGED <<variant, nextToken, nreq>>

\* the response of routes.py handle_command for a command_output
RoutesResponse(out, token) ==
    CASE out.kind = "dict_confirm" ->
            [NoResponse EXCEPT !.http = 200, !.status = "confirmation_required_popup",
                               !.token = token]
      [] out.kind = "str_error" -> [NoResponse EXCEPT !.http = 500, !.status = "agent_error"]
      [] OTHER -> [NoResponse EXCEPT !.http = 200, !.status = "absent", !.inner = "success"]

\* the response of consolidated_chatbot.py handle_command for the agent's dict
ChatbotResponse(r) ==
    CASE r.output.kind = "web_success" -> [NoResponse EXCEPT !.http = 200, !.status = "absent"]
      [] r.output.kind = "web_missing" ->
            [NoResponse EXCEPT !.http = 400, !.status = "missing_parameters",
                               !.missing = r.output.missing, !.fn = r.fn,
                               !.provided = r.final_params]
      [] r.output.kind = "web_clarify" ->
            [NoResponse EXCEPT !.http = 400, !.status = "clarification_needed"]
      [] OTHER -> [NoResponse EXCEPT !.http = 500, !.status = "absent"]

\* the caller gets its answer; routes.py stores a confirmation it asks for
Respond(t) ==
    /\ req[t].pc = "respond"
    /\ LET r == req[t]
           mint == variant = "routes" /\ r.output.kind = "dict_confirm"
           resp == CASE variant = "routes" -> RoutesResponse(r.output, nextToken)
                     [] variant = "chatbot" /\ r.is_web -> ChatbotResponse(r)
                     [] OTHER -> [NoResponse EXCEPT !.status = "cli", !.inner = r.output.kind]
       IN  /\ mint => nextToken <= MaxTokens
           /\ req' = [req EXCEPT ![t] = [Ended(r) EXCEPT !.response = resp, !.pc = "done"]]
           /\ pending' = IF mint
                         THEN Update(pending,
                                  (nextToken :> [action |-> "user_query", call |-> r.resolved]))
                         ELSE pending
           /\ nextToken' = IF mint THEN nextToken + 1 ELSE nextToken
    /\ UNCHANGED <<variant, nreq>>

InitFor(deployments) ==
    /\ variant \in deployments
    /\ req = [t \in AllThreads |-> Fresh]
    /\ pending = EmptyMap
    /\ nextToken = 1
    /\ nreq = 0

Init == InitFor(Variants)

Next ==
    \E t \in AllThreads :
        \/ Receive(t)
        \/ ConfirmCheck(t)
        \/ ConfirmFetch(t)
        \/ Generate(t)
        \/ Validate(t)
        \/ Resolve(t)
        \/ Prompt(t)
        \/ Gate(t)
        \/ Connect(t)
        \/ Invoke(t)
        \/ Pop(t)
        \/ Respond(t)

Spec == Init /\ [][Next]_vars

\* the deployments without the routes.py server: one request at a time
PipelineVariants == Variants \ {"routes"}
InitPipeline == InitFor(PipelineVariants)

NextPipeline ==
    \E t \in AllThreads :
        \/ Receive(t)
        \/ Generate(t)
        \/ Validate(t)
        \/ Resolve(t)
        \/ Prompt(t)
        \/ Gate(t)
        \/ Connect(t)
        \/ Invoke(t)
        \/ Respond(t)

SpecPipeline == InitPipeline /\ [][NextPipeline]_vars

(***************************************************************************)
(* The two oracle passes on their own                                      *)
(***************************************************************************)
\* _generate_initial_command_with_ai is called with some reply of the oracle
AskGenerate(t) ==
    /\ t = 1
    /\ req[t].pc = "idle"
    /\ \E reply \in GenReplies(variant) :
         req' = [req EXCEPT ![t] =
                   [@ EXCEPT !.reply = reply,
                             !.intent = generate_initial_command_with_ai(variant, reply),
                             !.oracle_calls = 1,
                             !.pc = "generated"]]
    /\ UNCHANGED <<variant, Shared, nreq>>

\* _validate_command_with_ai is called with some reply of the oracle
AskValidate(t) ==
    /\ req[t].pc = "generated"
    /\ \E reply \in ValReplies(variant, IntentFn(req[t].intent)) :
         req' = [req EXCEPT ![t] =
                   [@ EXCEPT !.reply = reply,
                             !.validation = validate_command_with_ai(variant, reply),
                             !.oracle_calls = 2,
                             !.pc = "validated"]]
    /\ UNCHANGED <<variant, Shared, nreq>>

NextOracle == \E t \in AllThreads : AskGenerate(t) \/ AskValidate(t)

SpecOracle == Init /\ [][NextOracle]_vars

(***************************************************************************)
(* Properties                                                              *)
(***************************************************************************)
Calls(t) == {req[t].invoked[i] : i \in 1..Len(req[t].invoked)}

\* C1: a critical operation is invoked in a request only if the confirmation
\* gate received the answer 'yes' in that request; without that answer the
\* backend operation is never invoked.
C1_InvokedOnlyAfterYes ==
    \A t \in AllThreads :
        \A c \in Calls(t) : c.fn \in critical_operations => req[t].gate = "yes"

HasEnded(t) == req[t].pc \in {"done", "crashed"}
ConfirmationStatuses == {"confirmation_required", "confirmation_required_popup"}

\* C2: in web mode a request that resolves to a critical operation with all
\* parameters present ends with a confirmation_required response carrying a
\* freshly minted token under which the resolved call is stored; the server
\* does not prompt and does not invoke the backend operation.
C2_DeferredConfirmation ==
    \A t \in AllThreads :
        (/\ req[t].is_web /\ ~req[t].via_token /\ HasEnded(t)
         /\ req[t].resolved # <<>>
         /\ req[t].resolved[1].fn \in critical_operations)
        => /\ req[t].response.status \in ConfirmationStatuses
           /\ req[t].response.token \in DOMAIN pending
           /\ req[t].asked = {} /\ req[t].gate = "none"
           /\ req[t].invoked = <<>>

\* C3: once a confirming request for a pending token has completed, whether
\* the stored action succeeded, failed or raised, the token is no longer in
\* the pending store.
C3_TokenEvictedAfterConfirm ==
    \A t \in AllThreads :
        (req[t].via_token /\ HasEnded(t)) => req[t].token \notin DOMAIN pending

\* C4: two concurrent confirming requests for one pending token execute the
\* stored action once: no interleaving lets both invoke the backend.
C4_ExactlyOneExecution ==
    \A t1, t2 \in AllThreads :
        (/\ t1 # t2
         /\ req[t1].via_token /\ req[t2].via_token
         /\ req[t1].token = req[t2].token)
        => ~(req[t1].invoked # <<>> /\ req[t2].invoked # <<>>)

\* C5: a confirming request whose token is not in the pending store is
\* answered with the invalid-confirmation error, invokes nothing and leaves
\* the pending store as it was; this holds each time the token is presented.
C5_UnknownTokenRejected ==
    [][\A t \in AllThreads :
         (/\ req[t].pc = "check"
          /\ req[t].token \notin DOMAIN pending
          /\ req'[t] # req[t])
         => /\ req'[t].pc = "done"
            /\ req'[t].response.http = 400
            /\ req'[t].response.status = "invalid_confirmation"
            /\ req'[t].invoked = <<>>
            /\ pending' = pending]_vars

\* the same unknown token has been presented twice and refused twice
C5_Witness ==
    \E t1, t2 \in AllThreads :
        /\ t1 # t2
        /\ req[t1].token = req[t2].token
        /\ \A t \in {t1, t2} :
              /\ req[t].pc = "done" /\ req[t].confirmed /\ req[t].token # 0
              /\ req[t].response.status = "invalid_confirmation"
              /\ req[t].invoked = <<>>
        /\ pending = EmptyMap

\* C6: a confirmed token executes the stored resolved call itself: the same
\* operation and parameters as were stored, with no further oracle call,
\* parameter prompt or confirmation prompt.
C6_StoredCallExecuted ==
    \A t \in AllThreads :
        req[t].via_token
        => /\ req[t].oracle_calls = 0
           /\ req[t].asked = {}
           /\ req[t].gate = "none"
           /\ req[t].token \in DOMAIN pending
                  => \A i \in 1..Len(req[t].invoked) :
                        <<req[t].invoked[i]>> = pending[req[t].token].call

\* C7: a request that presents a pending token with confirmed = false
\* removes the entry and does not execute the stored action.
C7_CancelRemovesEntry ==
    \A t \in AllThreads :
        (/\ req[t].was_pending /\ req[t].token # 0 /\ ~req[t].confirmed
         /\ HasEnded(t))
        => /\ req[t].token \notin DOMAIN pending
           /\ ~req[t].via_token

RequiredNames(v, fn) == {n \in ApiParamNames(v, fn) : Details(v, fn, n).required}

\* C8: in agent.py and consolidated_chatbot.py a backend operation of the
\* registry is never invoked while a parameter the registry marks required
\* is absent from the final arguments or null, whatever the intent, the
\* corrections and the answers were.
C8_RequiredPresentAtInvoke ==
    \A t \in AllThreads :
        variant \in {"routes", "agent", "chatbot"}
        => \A c \in Calls(t) :
              InRegistry(variant, c.fn)
              => \A n \in RequiredNames(variant, c.fn) :
                    Has(c.args, n) /\ ~IsNull(c.args[n])

\* an operation with required parameters has been invoked after the caller
\* was asked for a parameter that was missing
C8_Witness ==
    \E t \in AllThreads :
        /\ variant \in {"agent", "chatbot"}
        /\ req[t].asked # {}
        /\ \E c \in Calls(t) :
              /\ InRegistry(variant, c.fn)
              /\ req[t].asked \cap RequiredNames(variant, c.fn) # {}

\* C9: in web mode a request with a required parameter absent or null after
\* the corrections are merged answers missing_parameters without prompting
\* and without invoking the backend, and the answer names exactly the
\* required parameters still absent or null, with the operation and the
\* parameters resolved so far.
C9_AllMissingReported ==
    \A t \in AllThreads :
        (/\ req[t].is_web /\ HasEnded(t)
         /\ req[t].response.status = "missing_parameters")
        => /\ req[t].asked = {}
           /\ req[t].invoked = <<>>
           /\ {req[t].response.missing[i] : i \in 1..Len(req[t].response.missing)}
                = {n \in RequiredNames(variant, req[t].response.fn) :
                       AbsentOrNone(req[t].response.provided, n)}

\* C10: a correction whose value begins with the placeholder marker is not
\* applied: after the merge the parameter has the value the intent gave it,
\* or is still absent when the intent did not give it.
C10_PlaceholderNotApplied ==
    \A t \in AllThreads :
        req[t].pc = "resolve"
        => \A n \in DOMAIN req[t].validation.corrections :
              IsPlaceholder(req[t].validation.corrections[n])
              => IF Has(IntentParams(req[t].intent), n)
                 THEN /\ Has(req[t].final_params, n)
                      /\ req[t].final_params[n] = IntentParams(req[t].intent)[n]
                 ELSE ~Has(req[t].final_params, n)

\* C11: in agent.py and agent_two_layer_original.py the generation pass
\* returns the parsed intent when the reply is JSON, bare or inside a json
\* fence, and the clarify fallback with empty parameters for every other
\* outcome: the oracle raising or being unavailable, a reply that is not
\* JSON, a reply that is truncated JSON.
C11_GenerateFallback ==
    \A t \in AllThreads :
        (req[t].pc = "generated" /\ variant \in {"routes", "agent", "legacy"})
        => IF req[t].reply.form \in JsonForms /\ Truthy(req[t].reply.payload)
           THEN req[t].intent = req[t].reply.payload
           ELSE req[t].reply.form \in {"raise", "unavailable", "prose", "truncated",
                                       "truncated_params"}
                => req[t].intent = ClarifyIntent

\* C12: in agent.py and agent_two_layer_original.py the validation pass
\* returns all four fields; fields the reply lacks
\* are empty, and a malformed reply or an absent oracle gives is_valid =
\* false with empty missing and correction sets.
C12_ValidateNormalised ==
    \A t \in AllThreads :
        (req[t].pc = "validated" /\ variant \in {"routes", "agent", "legacy"})
        => /\ DOMAIN req[t].validation = {"is_valid", "feedback", "missing", "corrections"}
           /\ (req[t].reply.form \in JsonForms /\ req[t].reply.payload.shape = "only_is_valid")
                 => /\ req[t].validation.missing = <<>>
                    /\ req[t].validation.corrections = EmptyMap
           /\ (\/ req[t].reply.form \notin JsonForms
               \/ req[t].reply.payload.shape \notin {"full", "only_is_valid"})
                 => /\ req[t].validation.is_valid = FALSE
                    /\ req[t].validation.missing = <<>>
                    /\ req[t].validation.corrections = EmptyMap

\* C13: a generation reply that parses as JSON but lacks function_name or
\* parameters, or is not a JSON object, never makes an exception leave the
\* pipeline: no request ends by raising in the generation stage or in the
\* stage that reads the generated intent
C13_MalformedIntentHandled ==
    \A t \in AllThreads : req[t].raised_in \notin {"generate", "validate"}


\* C14: an intent that names an operation absent from the registry ends
\* with an error and invokes nothing on the provider: every callable that is
\* invoked is an operation of the registry, and a request whose operation is
\* not in the registry answers its web caller with the error value
C14_UnknownOperationRejected ==
    \A t \in AllThreads :
        /\ \A c \in Calls(t) : InRegistry(variant, c.fn)
        /\ (req[t].is_web /\ req[t].pc = "respond" /\ req[t].fn # ""
               /\ ~InRegistry(variant, req[t].fn))
           => req[t].output = ErrorOut(variant, req[t])


\* the five statuses of the envelope
EnvelopeStatuses ==
    {"success", "missing_parameters", "clarification_needed", "confirmation_required", "error"}

\* the status a response carries: its own field, or the one of its result
ResponseStatus(resp) == IF resp.status = "absent" THEN resp.inner ELSE resp.status

\* C15: every response the command endpoint returns carries a status, and
\* that status is one of success, missing_parameters, clarification_needed,
\* confirmation_required, error
C15_FiveStatuses ==
    \A t \in AllThreads :
        (req[t].is_web /\ req[t].pc = "done")
        => ResponseStatus(req[t].response) \in EnvelopeStatuses


\* C16: when the generated intent is the sentinel 'clarify', no later stage
\* runs (the validation oracle is not called, no parameter is asked for, no
\* confirmation is requested, nothing is invoked) and the request is
\* answered with the status clarification_needed
C16_ClarifyEndsRequest ==
    \A t \in AllThreads :
        req[t].clarified
        => /\ req[t].oracle_calls = 1
           /\ req[t].asked = {}
           /\ req[t].gate = "none"
           /\ req[t].invoked = <<>>
           /\ (req[t].is_web /\ req[t].pc = "done")
              => ResponseStatus(req[t].response) = "clarification_needed"


\* C17: a parameter name of the merged parameters that the operation does
\* not declare is never passed to the backend: the argument names of every
\* call, attempted or made, are a subset of the operation's parameter names
C17_OnlyDeclaredNamesPassed ==
    \A t \in AllThreads :
        /\ req[t].pc = "invoke" => DOMAIN req[t].args \subseteq SigNames(variant, req[t].fn)
        /\ \A c \in Calls(t) : DOMAIN c.args \subseteq SigNames(variant, c.fn)

\* a call is about to be made for merged parameters that hold an unknown name
C17_Witness ==
    \E t \in AllThreads :
        /\ req[t].pc = "invoke"
        /\ BindsOk(variant, req[t].fn, req[t].args)
        /\ \E n \in DOMAIN req[t].final_params : n \notin SigNames(variant, req[t].fn)


\* the declared type of parameter n of operation fn
TypeOf(v, fn, n) == (CHOOSE d \in Range(Signature(v, fn)) : d.name = n).type

\* C18: in agent.py and agent_two_layer_original.py an integer-typed
\* parameter reaches the backend only as an integer: a raw value with digits
\* is resolved to the integer of its digits, a raw value without digits fails
\* resolution, and no call is made with the text
C18_IntegerParametersCoerced ==
    \A t \in AllThreads :
        variant \in {"agent", "legacy"}
        => \A c \in Calls(t) :
              \A n \in DOMAIN c.args :
                  TypeOf(variant, c.fn, n) = TInt => c.args[n].t \in {"int", "null"}


\* n is an argument of call c that holds the value of the default map
FromDefaultMap(v, c, n) ==
    /\ n \in DOMAIN c.args
    /\ ~IsNull(DefaultFor(v, c.fn, n))
    /\ c.args[n] = DefaultFor(v, c.fn, n)

\* C19: a value of the default-parameter map is an argument of a backend
\* call only for a parameter the person was asked for at the prompt (and
\* answered 'default'); the map is never applied to a parameter that was
\* not solicited
C19_DefaultOnlyOnRequest ==
    \A t \in AllThreads :
        \A c \in Calls(t) :
            \A n \in DOMAIN c.args : FromDefaultMap(variant, c, n) => n \in req[t].asked

\* agent.py made a call with a default the person asked for at the prompt
C19_Witness ==
    \E t \in AllThreads :
        \E c \in Calls(t) :
            /\ variant = "agent"
            /\ \E n \in DOMAIN c.args : FromDefaultMap(variant, c, n) /\ n \in req[t].asked


\* C20: at the confirmation prompt every answer other than 'yes', the empty
\* one included, aborts the request at once: the gate never remains open for
\* a further answer after it has received one
C20_GateAbortsOnOtherAnswer ==
    \A t \in AllThreads : ~(req[t].pc = "gate" /\ req[t].gate = "asked")


\* the names that have to be solicited for operation fn: the required
\* parameters that are absent or null, and the names the validation oracle
\* reported that are parameters of fn and absent or null
ToSolicit(v, fn, final_params, intent_missing) ==
    {n \in ApiParamNames(v, fn) :
        /\ AbsentOrNone(final_params, n)
        /\ Details(v, fn, n).required \/ n \in Range(intent_missing)}

\* C21: in interactive mode the parameters asked for at the prompt are
\* exactly the required parameters that are absent or null after the
\* corrections, together with the names the validation oracle reported
\* missing that are parameters of the operation and not yet present
C21_SolicitedExactly ==
    \A t \in AllThreads :
        (req[t].pc = "resolve" /\ ~req[t].is_web /\ InRegistry(variant, req[t].fn))
        => LET r == req[t]
               expected == ToSolicit(variant, r.fn, r.final_params, r.validation.missing)
           IN  CASE variant = "agent" ->
                      Range(ParamsToPrompt(variant, r.fn, r.final_params,
                                           r.validation.missing)) = expected
                 [] variant = "chatbot" ->
                      Range(get_missing_parameters(variant, r.fn, r.final_params)) = expected
                 [] OTHER -> TRUE


\* a value that counts as given: not null and not the empty text
IsGiven(x) == ~IsNull(x) /\ (x.t = "str" => x.s # <<>>)

\* one answer at the prompt of thread t: the request is left by an
\* exception, or the same parameter is asked again with nothing stored, or
\* the parameter got the typed value or the configured default
PromptStep(t) ==
    LET n == Head(req[t].toPrompt)
        got == IF req'[t].pc = "prompt" THEN req'[t].collected ELSE req'[t].final_params
    IN  \/ req'[t].raised
        \/ /\ req'[t].pc = "prompt"
           /\ req'[t].toPrompt = req[t].toPrompt
           /\ req'[t].collected = req[t].collected
        \/ /\ Has(got, n)
           /\ IsGiven(got[n])
           /\ got[n] \in {PromptValue(variant, req[t].fn, n, VTyped).value,
                          DefaultFor(variant, req[t].fn, n)}

\* C22: in agent.py and consolidated_chatbot.py the prompt for a missing
\* parameter completes only with a non-empty typed value or with the
\* configured default of that operation and parameter; an empty answer, or
\* 'default' without a configured default, asks for the same parameter
\* again; and no backend call is made while a required parameter is missing
C22_PromptCompletion ==
    /\ [][\A t \in AllThreads :
             (variant \in {"agent", "chatbot"} /\ req[t].pc = "prompt" /\ req'[t] # req[t])
             => PromptStep(t)]_vars
    /\ [](\A t \in AllThreads :
             variant \in {"agent", "chatbot"}
             => \A c \in Calls(t) :
                   InRegistry(variant, c.fn)
                   => \A n \in RequiredNames(variant, c.fn) :
                         Has(c.args, n) /\ ~IsNull(c.args[n]))

\* a parameter was asked for more than once and then got its value
C22_Witness ==
    \E t \in AllThreads :
        /\ variant \in {"agent", "chatbot"}
        /\ req[t].pc \in {"gate", "connect"}
        /\ req[t].gate = "none"
        /\ req[t].asked # {}
        /\ req[t].nprompts > Cardinality(req[t].asked)
        /\ \A n \in req[t].asked : Has(req[t].final_params, n) /\ IsGiven(req[t].final_params[n])


\* the provider's lifecycle methods: what consolidated_chatbot.py names as
\* not part of the operational API
LifecycleOperations == {"connect", "_ensure_connection"}

\* C23: the registry holds no lifecycle operation of the provider, and no
\* request invokes one as if it were a user action
C23_NoLifecycleOperation ==
    /\ LifecycleOperations \cap DOMAIN get_api_methods(variant) = {}
    /\ \A t \in AllThreads : \A c \in Calls(t) : c.fn \notin LifecycleOperations


\* C24: the executor never retries: within one request the backend
\* operation is invoked at most once, also when the invocation raises or
\* returns an empty result
C24_NoRetry ==
    \A t \in AllThreads : Len(req[t].invoked) <= 1

\* an invocation raised and the request returns the error
C24_Witness ==
    \E t \in AllThreads :
        /\ req[t].pc = "respond"
        /\ Len(req[t].invoked) = 1
        /\ req[t].output = ErrorOut(variant, req[t])


\* C25: in agent.py the stages of a request occur in one order: the
\* generation oracle, then the validation oracle, then the prompts for
\* parameters, then the confirmation gate of a critical operation, then the
\* connection and the invocation; nothing is asked for at the prompt once
\* the gate was answered, and nothing is invoked before the gate said yes
C25_StageOrder ==
    \A t \in AllThreads :
        variant = "agent"
        => LET r == req[t]
           IN  /\ r.pc = "generate" => r.oracle_calls = 0
               /\ r.pc = "validate" => r.oracle_calls = 1
               /\ r.pc \in {"resolve", "prompt", "gate", "connect", "invoke"}
                  => r.oracle_calls = 2
               /\ r.pc \in {"generate", "validate", "resolve"} => r.asked = {}
               /\ r.pc \in {"generate", "validate", "resolve", "prompt"}
                  => r.gate = "none" /\ r.invoked = <<>>
               /\ r.pc = "gate" => r.invoked = <<>>
               /\ (r.pc \in {"connect", "invoke"} /\ NeedsConfirmation(r.fn)) => r.gate = "yes"
               /\ r.invoked # <<>> => r.oracle_calls = 2
               /\ \A c \in Calls(t) : NeedsConfirmation(c.fn) => r.gate = "yes"

\* a critical operation was invoked after a prompt and a confirmation
C25_Witness ==
    \E t \in AllThreads :
        /\ variant = "agent"
        /\ req[t].asked # {}
        /\ req[t].gate = "yes"
        /\ Len(req[t].invoked) = 1


\* the call execute_command of consolidated_chatbot.py makes for the
\* parameters it resolved
CallFor(v, call) == [fn |-> call.fn, args |-> FilterToSignature(v, call.fn, call.args)]

\* C26: in consolidated_chatbot.py the call that is made does not depend on
\* the mode: the operation and the merged parameters are a function of the
\* two oracle replies; when no required parameter is missing the request
\* goes on to the backend with exactly these, with is_web true as with
\* is_web false; and a clarify intent invokes nothing in either mode
C26_ModesConsistent ==
    /\ [](\A t \in AllThreads :
             variant = "chatbot"
             => /\ req[t].pc = "resolve"
                   => /\ req[t].fn = IntentFn(req[t].intent)
                      /\ req[t].final_params =
                             MergeCorrections(variant, IntentParams(req[t].intent),
                                              req[t].validation.corrections)
                /\ \A c \in Calls(t) :
                       Len(req[t].resolved) = 1 /\ c = CallFor(variant, req[t].resolved[1])
                /\ req[t].clarified => req[t].invoked = <<>>)
    /\ [][\A t \in AllThreads :
             (/\ variant = "chatbot"
              /\ req[t].pc = "resolve"
              /\ req'[t] # req[t]
              /\ get_missing_parameters(variant, req[t].fn, req[t].final_params) = <<>>)
             => /\ req'[t].pc = "connect"
                /\ req'[t].resolved = <<[fn |-> req[t].fn, args |-> req[t].final_params]>>]_vars

\* a web request with no required parameter missing made its call with the
\* merged parameters
C26_Witness ==
    \E t \in AllThreads :
        /\ variant = "chatbot"
        /\ req[t].is_web
        /\ Len(req[t].invoked) = 1
        /\ req[t].resolved[1].args # EmptyMap


\* C27: routes.py answers with status success only a request in which a
\* backend operation was invoked; a request cancelled at the gate, naming
\* an unknown operation or aborted for a missing parameter is not a success
C27_SuccessMeansInvoked ==
    \A t \in AllThreads :
        (/\ variant = "routes"
         /\ req[t].pc = "done"
         /\ ResponseStatus(req[t].response) = "success")
        => req[t].invoked # <<>>


\* the request with the opposite verdict of the validation oracle
OtherVerdict(r) == [r EXCEPT !.validation = [@ EXCEPT !.is_valid = ~@]]

\* C28: the is_valid flag of the validation result does not influence the
\* execution: the operation and the merged parameters do not depend on it,
\* and what follows the validation (the parameters asked for, the gate, the
\* call) is the same for the two values of the flag
C28_VerdictIgnored ==
    \A t \in AllThreads :
        req[t].pc = "resolve"
        => /\ req[t].fn = IntentFn(req[t].intent)
           /\ req[t].final_params =
                  MergeCorrections(variant, IntentParams(req[t].intent),
                                   req[t].validation.corrections)
           /\ AfterValidation(variant, req[t]) = AfterValidation(variant, OtherVerdict(req[t]))

\* a command judged invalid goes on to its execution
C28_Witness ==
    \E t \in AllThreads :
        /\ req[t].pc = "resolve"
        /\ ~req[t].validation.is_valid
        /\ AfterValidation(variant, req[t]).pc \in {"gate", "connect"}
        /\ AfterValidation(variant, req[t]).resolved # <<>>


\* C29: in agent.py and consolidated_chatbot.py no argument of a backend
\* call is a placeholder, a text that begins with 'Please provide', whether
\* it came from the parameters of the intent or from a correction
C29_NoPlaceholderArgument ==
    \A t \in AllThreads :
        variant \in {"agent", "chatbot"}
        => \A c \in Calls(t) :
              \A n \in DOMAIN c.args : ~IsPlaceholder(c.args[n])


\* C30: in agent_two_layer_original.py every resolved parameter that the
\* operation's signature accepts and whose value is not null is among the
\* arguments of the call, whatever its declared type; an integer-typed
\* required parameter such as size_gb is not dropped
C30_ResolvedParametersPassed ==
    \A t \in AllThreads :
        (variant = "legacy" /\ req[t].pc \in {"connect", "invoke"})
        => \A n \in (DOMAIN req[t].final_params) \cap SigNames(variant, req[t].fn) :
              ~IsNull(req[t].final_params[n]) => Has(req[t].args, n)

====
